---- MODULE Spec2Model ----
(***************************************************************************)
(* Bao Retro Camera: the photo lifecycle (staged in the camera, promoted   *)
(* to the wall, edited, deleted), the single-pointer drag tracker and the  *)
(* asynchronous captioning of App.tsx, Polaroid.tsx and geminiService.ts.  *)
(*                                                                         *)
(* JavaScript runs one handler or callback at a time; every action below   *)
(* is one of them, run to completion.  React state is changed through the  *)
(* functional updaters the code passes to its setters, and the component   *)
(* is rendered again before the next handler runs, so that the values a    *)
(* handler closes over (stagedPhoto, photos, dragState, photo) are those   *)
(* of the current state.                                                   *)
(*                                                                         *)
(* Strings are sequences of one-character strings.  A photo id is the      *)
(* millisecond clock value Date.now() read by takePhoto; the clock         *)
(* advances between two shots.                                             *)
(***************************************************************************)
EXTENDS Integers, Sequences, FiniteSets, TLC

\* ---------------------------------------------------------------- bounds
\* Number of shots that create a photo (the clock values 1..MaxPhotos).
MaxPhotos == 2
\* Largest zIndex a mouse down on a wall photo may assign.
MaxZIndex == 102
\* Longest AI response text of CaptionSpec.
MaxTextLen == 3

\* ------------------------------------------------------ program constants
CAMERA_SIZE == 450
PHOTO_WIDTH == 240
PHOTO_HEIGHT == 320
\* zIndex of a new staged photo, and of a photo promoted to the wall.
STAGED_ZINDEX == 10
PROMOTED_ZINDEX == 100
\* The floor of Math.max(..., 100) in handleWallMouseDown.
FRONT_FLOOR == 100
\* left: '64px' of the camera container.
CAMERA_LEFT == 64

\* ------------------------------------------------------------ environment
\* null
Null == [null |-> TRUE]

\* An optional string (string | undefined, string | null).
Some(v) == [some |-> TRUE, v |-> v]
None == [some |-> FALSE, v |-> <<>>]

\* "Camera not found."
CameraNotFound ==
    <<"C","a","m","e","r","a"," ","n","o","t"," ","f","o","u","n","d",".">>

\* "Memories are timeless..."
MemoriesCaption ==
    <<"M","e","m","o","r","i","e","s"," ","a","r","e"," ",
      "t","i","m","e","l","e","s","s",".",".",".">>

\* "A beautiful moment captured."
BeautifulCaption ==
    <<"A"," ","b","e","a","u","t","i","f","u","l"," ",
      "m","o","m","e","n","t"," ","c","a","p","t","u","r","e","d",".">>

\* "A moment frozen in time."
FrozenCaption ==
    <<"A"," ","m","o","m","e","n","t"," ","f","r","o","z","e","n"," ",
      "i","n"," ","t","i","m","e",".">>

\* White space and line terminators, as String.prototype.trim removes them.
WhiteSpace == {" ", "\t", "\n"}

\* The values of process.env.API_KEY: undefined or a key.
ApiKeys == {None, Some(<<"k">>)}

\* Pointer positions (clientX, clientY) of mouse events.
Pointers == {[x |-> 170, y |-> 310], [x |-> 420, y |-> 640]}

\* getBoundingClientRect() of the camera container: fixed, left 64px, bottom
\* 64px, CAMERA_SIZE square, in a window 900px high.
CameraRects ==
    {[left |-> CAMERA_LEFT, top |-> 386, width |-> CAMERA_SIZE, height |-> CAMERA_SIZE]}

\* (videoWidth, videoHeight) of the stream the camera delivers.
VideoSizes == {[w |-> 640, h |-> 480]}

\* Texts the user types into the caption textarea.
EditTexts == {<<"b">>}

\* What ai.models.generateContent does in the main specification: it throws,
\* or it answers with a response whose text is undefined or a string.
AIOutcomes ==
    {[throws |-> TRUE, text |-> None],
     [throws |-> FALSE, text |-> Some(<<" ", "a", "\n">>)]}

Min(a, b) == IF a < b THEN a ELSE b

Max(S) == CHOOSE m \in S : \A n \in S : n <= m

\* ------------------------------------------------------------------ state
VARIABLES
    photos,          \* useState<PhotoData[]>: the wall, in insertion order
    stagedPhoto,     \* useState<PhotoData | null>: the print in the camera
    cameraError,     \* useState<string | null>
    dragState,       \* useState<{id, startX, startY, initialPhotoPos} | null>
    video,           \* videoRef.current: [w, h] = (videoWidth, videoHeight)
    cameraPending,   \* startCamera has not finished yet
    now,             \* Date.now()
    apiKey,          \* process.env.API_KEY
    pendingCaptions, \* generateCaption calls in flight: [id, kind]
    pendingTimers,   \* developing timers in flight: photo ids
    polaroid,        \* Polaroid component state of each wall photo
    deleted,         \* ids deletePhoto has removed from the wall
    savedEdits,      \* ids whose caption the user saved, no regeneration asked since
    gc               \* one generateCaption call of CaptionSpec

vars == <<photos, stagedPhoto, cameraError, dragState, video, cameraPending, now,
          apiKey, pendingCaptions, pendingTimers, polaroid, deleted, savedEdits, gc>>

\* ------------------------------------------------------- geminiService.ts
RECURSIVE trimStart(_)
trimStart(s) ==
    IF s # <<>> /\ Head(s) \in WhiteSpace THEN trimStart(Tail(s)) ELSE s

RECURSIVE trimEnd(_)
trimEnd(s) ==
    IF s # <<>> /\ s[Len(s)] \in WhiteSpace
    THEN trimEnd(SubSeq(s, 1, Len(s) - 1))
    ELSE s

\* String.prototype.trim
trim(s) == trimEnd(trimStart(s))

\* !process.env.API_KEY
NoApiKey(key) == ~key.some \/ key.v = <<>>

\* response.text || "A beautiful moment captured.", without the trim.
ResponseCaptionUntrimmed(text) ==
    IF ~text.some THEN BeautifulCaption
    ELSE IF text.v = <<>> THEN BeautifulCaption
    ELSE text.v

\* response.text?.trim() || "A beautiful moment captured."
ResponseCaption(text) ==
    IF ~text.some THEN BeautifulCaption
    ELSE IF trim(text.v) = <<>> THEN BeautifulCaption
    ELSE trim(text.v)

\* The string generateCaption resolves with, for an API key and an outcome
\* of the AI call.
generateCaption(key, outcome) ==
    IF NoApiKey(key) THEN MemoriesCaption
    ELSE IF outcome.throws THEN FrozenCaption
    ELSE ResponseCaption(outcome.text)


\* ------------------------------------------------------------- App state
\* The ids of the photos of a list.
Ids(list) == {list[i].id : i \in 1..Len(list)}

\* The first photo of the list with this id.
PhotoOf(list, id) == list[CHOOSE i \in 1..Len(list) :
                            /\ list[i].id = id
                            /\ \A j \in 1..(i - 1) : list[j].id # id]

\* { ...p, ...updates }
Merge(p, updates) ==
    [k \in DOMAIN p |-> IF k \in DOMAIN updates THEN updates[k] ELSE p[k]]


\* The Polaroid component of a wall photo when it mounts.
MountPolaroid(photo) ==
    [isHovering |-> FALSE, isEditing |-> FALSE, editText |-> photo.caption]

\* The Polaroid components after a render of the wall newPhotos: a new key
\* mounts, a missing key unmounts, and the effect on [photo.caption] copies a
\* changed caption into editText.
RenderPolaroids(pol, oldPhotos, newPhotos) ==
    [id \in Ids(newPhotos) |->
        IF id \notin DOMAIN pol THEN MountPolaroid(PhotoOf(newPhotos, id))
        ELSE IF PhotoOf(newPhotos, id).caption # PhotoOf(oldPhotos, id).caption
             THEN [pol[id] EXCEPT !.editText = PhotoOf(newPhotos, id).caption]
             ELSE pol[id]]

\* Every state change of App goes through here: the new wall is rendered.
SetPhotos(newPhotos, pol) ==
    /\ photos' = newPhotos
    /\ polaroid' = RenderPolaroids(pol, photos, newPhotos)

CaptionVarsUnchanged == UNCHANGED <<apiKey, gc>>

\* ---------------------------------------------------------- camera setup
\* startCamera: getUserMedia delivers a stream, with the preferred constraints
\* or with the fallback.
startCameraOk(size) ==
    /\ cameraPending
    /\ cameraPending' = FALSE
    /\ video' = size
    /\ UNCHANGED <<photos, stagedPhoto, cameraError, dragState, now,
                   pendingCaptions, pendingTimers, polaroid, deleted>>
    /\ CaptionVarsUnchanged

\* startCamera: both getUserMedia calls fail; the video element is not
\* rendered any more.
startCameraFail ==
    /\ cameraPending
    /\ cameraPending' = FALSE
    /\ cameraError' = Some(CameraNotFound)
    /\ video' = Null
    /\ UNCHANGED <<photos, stagedPhoto, dragState, now,
                   pendingCaptions, pendingTimers, polaroid, deleted>>
    /\ CaptionVarsUnchanged

\* ---------------------------------------------------------- shutter action
\* The early return without its test of stagedPhoto.
ShotPreventedByCameraOnly == video = Null \/ cameraError.some

\* if (!videoRef.current || stagedPhoto || cameraError) return;
ShotPrevented == video = Null \/ stagedPhoto # Null \/ cameraError.some

\* if (vid.videoWidth === 0 || vid.videoHeight === 0) return;
NoFrame == video.w = 0 \/ video.h = 0

\* A shot whose print needs no developing.
NewPhotoDeveloped(newId, dataUrl, dateStr) ==
    [id |-> newId,
     dataUrl |-> dataUrl,
     caption |-> <<>>,
     date |-> dateStr,
     position |-> [x |-> 0, y |-> 0],
     zIndex |-> STAGED_ZINDEX,
     isDeveloping |-> FALSE,
     isLoadingCaption |-> TRUE]

\* const newPhoto: PhotoData = {...}
NewPhoto(newId, dataUrl, dateStr) ==
    [id |-> newId,
     dataUrl |-> dataUrl,
     caption |-> <<>>,
     date |-> dateStr,
     position |-> [x |-> 0, y |-> 0],
     zIndex |-> STAGED_ZINDEX,
     isDeveloping |-> TRUE,
     isLoadingCaption |-> TRUE]

\* An updateFn that stores the caption and leaves the loading flag alone.
updateFnCaptionOnly(p, newId, caption) ==
    IF p.id = newId THEN Merge(p, [caption |-> caption]) ELSE p

\* const updateFn = (p) => p.id === newId ? { ...p, caption, isLoadingCaption: false } : p
updateFn(p, newId, caption) ==
    IF p.id = newId
    THEN Merge(p, [caption |-> caption, isLoadingCaption |-> FALSE])
    ELSE p

\* A timer callback that does not look at the id.
clearDevFnAnyPhoto(p, newId) == Merge(p, [isDeveloping |-> FALSE])

\* const clearDevFn = (p) => p.id === newId ? { ...p, isDeveloping: false } : p
clearDevFn(p, newId) ==
    IF p.id = newId THEN Merge(p, [isDeveloping |-> FALSE]) ELSE p

\* const updatePhoto = (id, updates) => setPhotos(prev => prev.map(...))
updatePhoto(list, id, updates) ==
    [i \in 1..Len(list) |->
        IF list[i].id = id THEN Merge(list[i], updates) ELSE list[i]]

\* A filter with its test inverted.
deletePhotoInverted(list, id) ==
    SelectSeq(list, LAMBDA p : p.id = id)

\* const deletePhoto = (id) => setPhotos(prev => prev.filter(p => p.id !== id))
deletePhoto(list, id) ==
    SelectSeq(list, LAMBDA p : p.id # id)

\* The .then callback of takePhoto:
\* setStagedPhoto(prev => prev && prev.id === newId ? updateFn(prev) : prev)
ThenStaged(prev, newId, caption) ==
    IF prev # Null /\ prev.id = newId THEN updateFn(prev, newId, caption) ELSE prev

\* setPhotos(prev => prev.map(updateFn))
ThenPhotos(prev, newId, caption) ==
    [i \in 1..Len(prev) |-> updateFn(prev[i], newId, caption)]

\* A continuation that stores the caption and leaves the loading flag set.
RegeneratedPhotosStillLoading(prev, id, newCaption) ==
    updatePhoto(prev, id, [caption |-> newCaption])

\* The continuation of handleRegenerate after its await:
\* onUpdate(photo.id, { caption: newCaption, isLoadingCaption: false })
RegeneratedPhotos(prev, id, newCaption) ==
    updatePhoto(prev, id, [caption |-> newCaption, isLoadingCaption |-> FALSE])

\* The AI call generateCaption does not make without an API key.
NotCalled == [throws |-> FALSE, text |-> None]

\* A click on the shutter.  hasCtx: canvas.getContext('2d') is not null.
\* The handler ends with the generateCaption call in flight and the timer set.
takePhoto(hasCtx) ==
    /\ IF ShotPrevented \/ NoFrame \/ ~hasCtx
       THEN UNCHANGED <<photos, polaroid, stagedPhoto, now, pendingCaptions, pendingTimers>>
       ELSE LET newId == now
                newPhoto == NewPhoto(newId, Min(video.w, video.h), now)
            IN /\ now <= MaxPhotos
               /\ now' = now + 1
               /\ stagedPhoto' = newPhoto
               /\ pendingCaptions' =
                      pendingCaptions \cup {[id |-> newId, kind |-> "initial"]}
               /\ pendingTimers' = pendingTimers \cup {newId}
               /\ UNCHANGED <<photos, polaroid>>
    /\ UNCHANGED <<cameraError, dragState, video, cameraPending, deleted>>
    /\ CaptionVarsUnchanged

\* A timer callback that clears the flag of the staged photo only.
developingTimerStagedOnly(newId) ==
    /\ newId \in pendingTimers
    /\ pendingTimers' = pendingTimers \ {newId}
    /\ stagedPhoto' = IF stagedPhoto # Null /\ stagedPhoto.id = newId
                      THEN clearDevFn(stagedPhoto, newId)
                      ELSE stagedPhoto
    /\ UNCHANGED <<photos, polaroid, cameraError, dragState, video, cameraPending, now,
                   pendingCaptions, deleted>>
    /\ CaptionVarsUnchanged

\* The developing timer of photo newId fires, 3500 ms after the shot.
developingTimer(newId) ==
    /\ newId \in pendingTimers
    /\ pendingTimers' = pendingTimers \ {newId}
    /\ stagedPhoto' = IF stagedPhoto # Null /\ stagedPhoto.id = newId
                      THEN clearDevFn(stagedPhoto, newId)
                      ELSE stagedPhoto
    /\ SetPhotos([i \in 1..Len(photos) |-> clearDevFn(photos[i], newId)], polaroid)
    /\ UNCHANGED <<cameraError, dragState, video, cameraPending, now,
                   pendingCaptions, deleted>>
    /\ CaptionVarsUnchanged

\* A generateCaption call in flight resolves.  For the call takePhoto made,
\* the .then callback runs; for the call handleRegenerate made, the handler
\* continues after its await.  Without an API key the outcome is not read.
captionResolved(call, outcome) ==
    /\ call \in pendingCaptions
    /\ pendingCaptions' = pendingCaptions \ {call}
    /\ LET caption == generateCaption(apiKey, outcome)
       IN IF call.kind = "initial"
          THEN /\ stagedPhoto' = ThenStaged(stagedPhoto, call.id, caption)
               /\ SetPhotos(ThenPhotos(photos, call.id, caption), polaroid)
          ELSE /\ stagedPhoto' = stagedPhoto
               /\ SetPhotos(RegeneratedPhotos(photos, call.id, caption), polaroid)
    /\ UNCHANGED <<cameraError, dragState, video, cameraPending, now,
                   pendingTimers, deleted>>
    /\ CaptionVarsUnchanged

\* -------------------------------------------------------------- drag logic
\* The pointer is over the ejected print: 240 x 320, centred on the camera
\* container, translateY(-40%) above its top.
OverStaged(e, rect) ==
    LET left == rect.left + (rect.width \div 2) - (PHOTO_WIDTH \div 2)
        top == rect.top - ((PHOTO_HEIGHT * 40) \div 100)
    IN /\ left <= e.x /\ e.x <= left + PHOTO_WIDTH
       /\ top <= e.y /\ e.y <= top + PHOTO_HEIGHT

\* The pointer is over a wall photo: 240 x 320 at translate(position).
OverPhoto(e, photo) ==
    /\ photo.position.x <= e.x /\ e.x <= photo.position.x + PHOTO_WIDTH
    /\ photo.position.y <= e.y /\ e.y <= photo.position.y + PHOTO_HEIGHT

\* A wall photo that does not take the caption of the staged photo along.
WallPhotoWithoutCaption(staged, rect) ==
    [staged EXCEPT !.position = [x |-> rect.left + (rect.width \div 2) - (PHOTO_WIDTH \div 2),
                                 y |-> rect.top - (PHOTO_HEIGHT \div 4)],
                   !.zIndex = PROMOTED_ZINDEX,
                   !.caption = <<>>]

\* const wallPhoto: PhotoData = { ...stagedPhoto, position: {...}, zIndex: 100 }
WallPhoto(staged, rect) ==
    LET photoCenterX == rect.left + (rect.width \div 2)
        photoCenterY == rect.top - (PHOTO_HEIGHT \div 4)
    IN Merge(staged, [position |-> [x |-> photoCenterX - (PHOTO_WIDTH \div 2),
                                    y |-> photoCenterY],
                      zIndex |-> PROMOTED_ZINDEX])

\* setDragState({ id, startX, startY, initialPhotoPos })
StartDrag(id, e, pos) ==
    [id |-> id, startX |-> e.x, startY |-> e.y, initialPhotoPos |-> pos]

\* A. A mouse down on the staged print pulls it out of the camera.
handleStagedMouseDown(e, rect) ==
    /\ stagedPhoto # Null
    /\ OverStaged(e, rect)
    /\ LET wallPhoto == WallPhoto(stagedPhoto, rect)
       IN /\ stagedPhoto' = Null
          /\ SetPhotos(Append(photos, wallPhoto), polaroid)
          /\ dragState' = StartDrag(wallPhoto.id, e, wallPhoto.position)
    /\ UNCHANGED <<cameraError, video, cameraPending, now,
                   pendingCaptions, pendingTimers, deleted>>
    /\ CaptionVarsUnchanged

\* A front that is level with the highest photo instead of above it.
BringToFrontZNoIncrement(list) ==
    Max({list[i].zIndex : i \in 1..Len(list)} \cup {FRONT_FLOOR})

\* const maxZ = Math.max(...photos.map(p => p.zIndex), 100) + 1
BringToFrontZ(list) ==
    Max({list[i].zIndex : i \in 1..Len(list)} \cup {FRONT_FLOOR}) + 1

\* B. A mouse down on a wall photo brings it to the front and starts a drag.
handleWallMouseDown(e, id) ==
    /\ id \in Ids(photos)
    /\ OverPhoto(e, PhotoOf(photos, id))
    /\ LET photo == PhotoOf(photos, id)
           maxZ == BringToFrontZ(photos)
       IN /\ maxZ <= MaxZIndex
          /\ SetPhotos(updatePhoto(photos, photo.id, [zIndex |-> maxZ]), polaroid)
          /\ dragState' = StartDrag(photo.id, e, photo.position)
    /\ UNCHANGED <<stagedPhoto, cameraError, video, cameraPending, now,
                   pendingCaptions, pendingTimers, deleted>>
    /\ CaptionVarsUnchanged

\* A drag that forgets where the pointer was at mouse down.
DraggedPositionNoStart(drag, e) ==
    [x |-> drag.initialPhotoPos.x + e.x,
     y |-> drag.initialPhotoPos.y + e.y]

\* The position handleGlobalMouseMove gives the dragged photo.
DraggedPosition(drag, e) ==
    [x |-> drag.initialPhotoPos.x + (e.x - drag.startX),
     y |-> drag.initialPhotoPos.y + (e.y - drag.startY)]

\* C. A mouse move anywhere in the window.
handleGlobalMouseMove(e) ==
    /\ IF dragState = Null
       THEN UNCHANGED <<photos, polaroid>>
       ELSE SetPhotos(updatePhoto(photos, dragState.id,
                          [position |-> DraggedPosition(dragState, e)]),
                      polaroid)
    /\ UNCHANGED <<stagedPhoto, cameraError, dragState, video, cameraPending, now,
                   pendingCaptions, pendingTimers, deleted>>
    /\ CaptionVarsUnchanged

\* A mouse up that ends the drag of a photo that is still on the wall only.
handleGlobalMouseUpOnWall ==
    /\ dragState' = IF dragState # Null /\ dragState.id \in Ids(photos)
                    THEN Null ELSE dragState
    /\ UNCHANGED <<photos, stagedPhoto, cameraError, video, cameraPending, now,
                   pendingCaptions, pendingTimers, polaroid, deleted>>
    /\ CaptionVarsUnchanged

\* D. A mouse up anywhere in the window.
handleGlobalMouseUp ==
    /\ dragState' = Null
    /\ UNCHANGED <<photos, stagedPhoto, cameraError, video, cameraPending, now,
                   pendingCaptions, pendingTimers, polaroid, deleted>>
    /\ CaptionVarsUnchanged

\* ------------------------------------------------------------ Polaroid.tsx
AppVarsUnchanged ==
    UNCHANGED <<stagedPhoto, cameraError, dragState, video, cameraPending, now>>

\* onMouseEnter / onMouseLeave: the one pointer is over one Polaroid at most.
onMouseEnter(id) ==
    /\ id \in Ids(photos)
    /\ \A other \in DOMAIN polaroid : ~polaroid[other].isHovering
    /\ polaroid' = [polaroid EXCEPT ![id].isHovering = TRUE]
    /\ AppVarsUnchanged
    /\ UNCHANGED <<photos, pendingCaptions, pendingTimers, deleted>>
    /\ CaptionVarsUnchanged

onMouseLeave(id) ==
    /\ id \in Ids(photos)
    /\ polaroid[id].isHovering
    /\ polaroid' = [polaroid EXCEPT ![id].isHovering = FALSE]
    /\ AppVarsUnchanged
    /\ UNCHANGED <<photos, pendingCaptions, pendingTimers, deleted>>
    /\ CaptionVarsUnchanged

\* The delete button of the tools, shown on a hovered wall photo that is not
\* being edited.
handleDelete(id) ==
    /\ id \in Ids(photos)
    /\ polaroid[id].isHovering /\ ~polaroid[id].isEditing
    /\ SetPhotos(deletePhoto(photos, id), polaroid)
    /\ deleted' = deleted \cup {id}
    /\ AppVarsUnchanged
    /\ UNCHANGED <<pendingCaptions, pendingTimers>>
    /\ CaptionVarsUnchanged

\* The regenerate button, shown on a hovered wall photo that is neither being
\* edited nor loading a caption: the handler up to its await.
handleRegenerate(id) ==
    /\ id \in Ids(photos)
    /\ polaroid[id].isHovering /\ ~polaroid[id].isEditing
    /\ ~PhotoOf(photos, id).isLoadingCaption
    /\ SetPhotos(updatePhoto(photos, id, [isLoadingCaption |-> TRUE]), polaroid)
    /\ pendingCaptions' = pendingCaptions \cup {[id |-> id, kind |-> "regen"]}
    /\ AppVarsUnchanged
    /\ UNCHANGED <<pendingTimers, deleted>>
    /\ CaptionVarsUnchanged

\* setIsEditing(true): a double click on the caption, or the pencil button.
startEditing(id) ==
    /\ id \in Ids(photos)
    /\ ~polaroid[id].isEditing
    /\ polaroid' = [polaroid EXCEPT ![id].isEditing = TRUE]
    /\ AppVarsUnchanged
    /\ UNCHANGED <<photos, pendingCaptions, pendingTimers, deleted>>
    /\ CaptionVarsUnchanged

\* onChange of the textarea: setEditText(e.target.value)
onChange(id, text) ==
    /\ id \in Ids(photos)
    /\ polaroid[id].isEditing
    /\ polaroid' = [polaroid EXCEPT ![id].editText = text]
    /\ AppVarsUnchanged
    /\ UNCHANGED <<photos, pendingCaptions, pendingTimers, deleted>>
    /\ CaptionVarsUnchanged

\* const saveEdit = () => { onUpdate(photo.id, { caption: editText }); setIsEditing(false); }
saveEdit(id) ==
    /\ SetPhotos(updatePhoto(photos, id, [caption |-> polaroid[id].editText]),
                 [polaroid EXCEPT ![id].isEditing = FALSE])
    /\ AppVarsUnchanged
    /\ UNCHANGED <<pendingCaptions, pendingTimers, deleted>>
    /\ CaptionVarsUnchanged

\* A cancelEdit that leaves the typed text in the textarea.
cancelEditKeepsText(id) ==
    /\ polaroid' = [polaroid EXCEPT ![id].isEditing = FALSE]
    /\ AppVarsUnchanged
    /\ UNCHANGED <<photos, pendingCaptions, pendingTimers, deleted>>
    /\ CaptionVarsUnchanged

\* const cancelEdit = () => { setEditText(photo.caption); setIsEditing(false); }
cancelEdit(id) ==
    /\ polaroid' = [polaroid EXCEPT ![id].editText = PhotoOf(photos, id).caption,
                                    ![id].isEditing = FALSE]
    /\ AppVarsUnchanged
    /\ UNCHANGED <<photos, pendingCaptions, pendingTimers, deleted>>
    /\ CaptionVarsUnchanged

\* The save and cancel buttons of the textarea.
saveButton(id) ==
    /\ id \in Ids(photos)
    /\ polaroid[id].isEditing
    /\ saveEdit(id)

cancelButton(id) ==
    /\ id \in Ids(photos)
    /\ polaroid[id].isEditing
    /\ cancelEdit(id)

Keys == {"Enter", "Escape", "a"}

\* onKeyDown of the textarea.
handleKeyDown(id, key, shiftKey) ==
    /\ id \in Ids(photos)
    /\ polaroid[id].isEditing
    /\ IF key = "Enter" /\ ~shiftKey THEN saveEdit(id)
       ELSE IF key = "Escape" THEN cancelEdit(id)
       ELSE /\ AppVarsUnchanged
            /\ UNCHANGED <<photos, polaroid, pendingCaptions, pendingTimers, deleted>>
            /\ CaptionVarsUnchanged

\* ---------------------------------------------------------- specification
PhotoIds == 1..MaxPhotos

Init ==
    /\ photos = <<>>
    /\ stagedPhoto = Null
    /\ cameraError = None
    /\ dragState = Null
    /\ video = [w |-> 0, h |-> 0]
    /\ cameraPending = TRUE
    /\ now = 1
    /\ apiKey \in ApiKeys
    /\ pendingCaptions = {}
    /\ pendingTimers = {}
    /\ polaroid = [id \in {} |-> Null]
    /\ deleted = {}
    /\ savedEdits = {}
    /\ gc = [pc |-> "idle"]

\* Without an API key generateCaption returns without awaiting anything: its
\* promise is resolved when the calling handler ends, and the .then callback
\* or the rest of handleRegenerate runs as a microtask, before the next event
\* handler or timer callback.
MicrotaskDue == NoApiKey(apiKey) /\ pendingCaptions # {}

\* The event loop takes the next event or timer when no microtask is due.
Idle == ~MicrotaskDue

Next ==
    \/ Idle /\ \E size \in VideoSizes : startCameraOk(size)
          /\ UNCHANGED savedEdits
    \/ Idle /\ startCameraFail
          /\ UNCHANGED savedEdits
    \/ Idle /\ \E hasCtx \in BOOLEAN : takePhoto(hasCtx)
          /\ UNCHANGED savedEdits
    \/ Idle /\ \E id \in PhotoIds : developingTimer(id)
          /\ UNCHANGED savedEdits
    \/ \E call \in pendingCaptions, outcome \in AIOutcomes : captionResolved(call, outcome)
          /\ UNCHANGED savedEdits
    \/ Idle /\ \E e \in Pointers, rect \in CameraRects : handleStagedMouseDown(e, rect)
          /\ UNCHANGED savedEdits
    \/ Idle /\ \E e \in Pointers, id \in PhotoIds : handleWallMouseDown(e, id)
          /\ UNCHANGED savedEdits
    \/ Idle /\ \E e \in Pointers : handleGlobalMouseMove(e)
          /\ UNCHANGED savedEdits
    \/ Idle /\ handleGlobalMouseUp
          /\ UNCHANGED savedEdits
    \/ Idle /\ \E id \in PhotoIds : onMouseEnter(id)
          /\ UNCHANGED savedEdits
    \/ Idle /\ \E id \in PhotoIds : onMouseLeave(id)
          /\ UNCHANGED savedEdits
    \/ Idle /\ \E id \in PhotoIds : handleDelete(id)
          /\ UNCHANGED savedEdits
    \/ Idle /\ \E id \in PhotoIds : handleRegenerate(id)
          /\ UNCHANGED savedEdits
    \/ Idle /\ \E id \in PhotoIds : startEditing(id)
          /\ UNCHANGED savedEdits
    \/ Idle /\ \E id \in PhotoIds, text \in EditTexts : onChange(id, text)
          /\ UNCHANGED savedEdits
    \/ Idle /\ \E id \in PhotoIds : saveButton(id)
          /\ UNCHANGED savedEdits
    \/ Idle /\ \E id \in PhotoIds : cancelButton(id)
          /\ UNCHANGED savedEdits
    \/ Idle /\ \E id \in PhotoIds, key \in Keys, shiftKey \in BOOLEAN : handleKeyDown(id, key, shiftKey)
          /\ UNCHANGED savedEdits

Spec == Init /\ [][Next]_vars


\* ------------------------------------------- one generateCaption call
\* The values of process.env.API_KEY of CaptionSpec: undefined, "" or a key.
CaptionApiKeys == ApiKeys \cup {Some(<<>>)}

\* The characters of an AI response text.
Chars == WhiteSpace \cup {"a", "b"}

\* The strings of at most n characters.
Texts(n) == UNION {[1..len -> Chars] : len \in 0..n}

\* What ai.models.generateContent can do: throw, or answer with a response
\* whose text is undefined or a string.
CaptionOutcomes ==
    {[throws |-> TRUE, text |-> None], [throws |-> FALSE, text |-> None]}
        \cup {[throws |-> FALSE, text |-> Some(t)] : t \in Texts(MaxTextLen)}

\* generateCaption is called.
CaptionInit ==
    /\ photos = <<>>
    /\ stagedPhoto = Null
    /\ cameraError = None
    /\ dragState = Null
    /\ video = [w |-> 0, h |-> 0]
    /\ cameraPending = TRUE
    /\ now = 1
    /\ apiKey \in CaptionApiKeys
    /\ pendingCaptions = {}
    /\ pendingTimers = {}
    /\ polaroid = [id \in {} |-> Null]
    /\ deleted = {}
    /\ savedEdits = {}
    /\ gc = [pc |-> "called", state |-> "pending", outcome |-> NotCalled, result |-> <<>>]

MainVarsUnchanged ==
    UNCHANGED <<photos, stagedPhoto, cameraError, dragState, video, cameraPending, now,
                apiKey, pendingCaptions, pendingTimers, polaroid, deleted, savedEdits>>

\* if (!process.env.API_KEY) return "Memories are timeless..."; otherwise the
\* AI call is made and awaited.
gcCheckKey ==
    /\ gc.pc = "called"
    /\ gc' = IF NoApiKey(apiKey)
             THEN [gc EXCEPT !.pc = "returned", !.state = "fulfilled",
                             !.result = generateCaption(apiKey, NotCalled)]
             ELSE [gc EXCEPT !.pc = "awaiting"]
    /\ MainVarsUnchanged

\* The AI call settles: the try block returns, or the catch block does.
gcSettle(outcome) ==
    /\ gc.pc = "awaiting"
    /\ gc' = [gc EXCEPT !.pc = "returned", !.state = "fulfilled",
                        !.outcome = outcome,
                        !.result = generateCaption(apiKey, outcome)]
    /\ MainVarsUnchanged

CaptionNext ==
    \/ gcCheckKey
    \/ \E outcome \in CaptionOutcomes : gcSettle(outcome)

CaptionSpec == CaptionInit /\ [][CaptionNext]_vars

\* ------------------------------------------------------------------ claims
\* The photo with this id, wherever it is; Null when it is nowhere.
Find(staged, list, id) ==
    IF staged # Null /\ staged.id = id THEN staged
    ELSE IF id \in Ids(list) THEN PhotoOf(list, id)
    ELSE Null

\* No id is twice on the wall.
UniqueIds(list) == \A i, j \in 1..Len(list) : list[i].id = list[j].id => i = j

C1_Places ==
    /\ UniqueIds(photos)
    /\ stagedPhoto # Null => stagedPhoto.id \notin (Ids(photos) \cup deleted)

C1_Step ==
    \* only takePhoto puts a photo in the camera, and it is a new, undeveloped one
    /\ (stagedPhoto' # Null /\ (stagedPhoto = Null \/ stagedPhoto.id # stagedPhoto'.id))
         => /\ \E hasCtx \in BOOLEAN : takePhoto(hasCtx)
            /\ stagedPhoto = Null
            /\ stagedPhoto'.isDeveloping /\ stagedPhoto'.isLoadingCaption
            /\ stagedPhoto'.caption = <<>>
            /\ stagedPhoto'.id \notin (Ids(photos) \cup deleted)
    \* only a mouse down on the staged print puts a photo on the wall
    /\ \A id \in Ids(photos') \ Ids(photos) :
            /\ \E e \in Pointers, rect \in CameraRects : handleStagedMouseDown(e, rect)
            /\ stagedPhoto # Null /\ stagedPhoto.id = id
            /\ stagedPhoto' = Null
    \* only deletePhoto takes a photo off the wall
    /\ \A id \in Ids(photos) \ Ids(photos') :
            /\ handleDelete(id)
            /\ photos' = deletePhoto(photos, id)
    \* a staged photo leaves the camera for the wall only
    /\ (stagedPhoto # Null /\ stagedPhoto' = Null) => stagedPhoto.id \in Ids(photos')

\* C1: a photo moves only forward through its lifecycle.  takePhoto creates it
\* as the staged photo (developing, loading its caption, caption empty); a
\* mouse down on the staged print is the only step that puts it on the wall;
\* deletePhoto is the only step that takes it off the wall; an id is never
\* both staged and on the wall, and an id that has been on the wall (it is
\* there, or it was deleted from there) is never the staged id.
C1_Lifecycle == []C1_Places /\ [][C1_Step]_vars

\* A photo on the wall, a later one staged in the camera.
C1_Witness == stagedPhoto # Null /\ photos # <<>>


\* The photo as the resolved caption fetch leaves it.
Captioned(p, id, caption) ==
    IF p.id = id
    THEN [p EXCEPT !.caption = caption, !.isLoadingCaption = FALSE]
    ELSE p

C2_Step ==
    \A call \in pendingCaptions, outcome \in AIOutcomes :
        (call.kind = "initial" /\ captionResolved(call, outcome)) =>
            LET caption == generateCaption(apiKey, outcome)
            IN /\ stagedPhoto' = IF stagedPhoto = Null THEN Null
                                 ELSE Captioned(stagedPhoto, call.id, caption)
               /\ Len(photos') = Len(photos)
               /\ \A i \in 1..Len(photos) :
                      photos'[i] = Captioned(photos[i], call.id, caption)
               \* the photo is in one of the two places, unless it was deleted
               /\ call.id \notin deleted =>
                      /\ Find(stagedPhoto', photos', call.id) # Null
                      /\ Find(stagedPhoto', photos', call.id).caption = caption
                      /\ ~Find(stagedPhoto', photos', call.id).isLoadingCaption

\* C2: when the caption fetch takePhoto started for photo id resolves, the
\* photo with that id gets the returned caption and isLoadingCaption = FALSE
\* wherever it is then (staged, or already on the wall), in every interleaving
\* with the mouse down that promotes it; no other photo is changed.
C2_InitialCaption == [][C2_Step]_vars

\* The fetch has resolved for a photo that is on the wall: it has the caption
\* of a failed AI call and loads no more, while its print still develops.
C2_Witness ==
    \E i \in 1..Len(photos) :
        /\ photos[i].caption = FrozenCaption
        /\ ~photos[i].isLoadingCaption
        /\ photos[i].isDeveloping
        /\ [id |-> photos[i].id, kind |-> "initial"] \notin pendingCaptions

\* The generateCaption calls there can be.
Calls == [id : PhotoIds, kind : {"initial", "regen"}]

\* The handlers and callbacks that read or write isDeveloping, isLoadingCaption
\* or the place of a photo.  The others (wall mouse down, mouse move, mouse up
\* and the caption editor) write position, zIndex, dragState, caption and the
\* editor's state only, which none of these reads, except that an open editor
\* hides the delete and regenerate buttons.
LifecycleNext ==
    \/ Idle /\ \E size \in VideoSizes : startCameraOk(size)
          /\ UNCHANGED savedEdits
    \/ Idle /\ startCameraFail
          /\ UNCHANGED savedEdits
    \/ Idle /\ \E hasCtx \in BOOLEAN : takePhoto(hasCtx)
          /\ UNCHANGED savedEdits
    \/ Idle /\ \E id \in PhotoIds : developingTimer(id)
          /\ UNCHANGED savedEdits
    \/ \E call \in pendingCaptions, outcome \in AIOutcomes : captionResolved(call, outcome)
          /\ UNCHANGED savedEdits
    \/ Idle /\ \E e \in Pointers, rect \in CameraRects : handleStagedMouseDown(e, rect)
          /\ UNCHANGED savedEdits
    \/ Idle /\ \E id \in PhotoIds : onMouseEnter(id)
          /\ UNCHANGED savedEdits
    \/ Idle /\ \E id \in PhotoIds : onMouseLeave(id)
          /\ UNCHANGED savedEdits
    \/ Idle /\ \E id \in PhotoIds : handleDelete(id)
          /\ UNCHANGED savedEdits
    \/ Idle /\ \E id \in PhotoIds : handleRegenerate(id)
          /\ UNCHANGED savedEdits

\* The developing timer fires and every caption fetch completes.
FairSpec ==
    /\ Init
    /\ [][LifecycleNext]_vars
    /\ \A id \in PhotoIds : WF_vars(developingTimer(id) /\ UNCHANGED savedEdits)
    /\ \A call \in Calls :
           WF_vars(\E outcome \in AIOutcomes :
                      captionResolved(call, outcome) /\ UNCHANGED savedEdits)

IsReady(id) ==
    /\ Find(stagedPhoto, photos, id) # Null
    /\ ~Find(stagedPhoto, photos, id).isDeveloping
    /\ ~Find(stagedPhoto, photos, id).isLoadingCaption

\* C3: every photo that is taken and not deleted eventually becomes ready
\* (isDeveloping = FALSE and isLoadingCaption = FALSE), given that the
\* developing timer fires and the caption fetch completes, in whichever order
\* and wherever the photo is then.
C3_EventuallyReady ==
    \A id \in PhotoIds :
        (Find(stagedPhoto, photos, id) # Null) ~> (IsReady(id) \/ id \in deleted)

\* A photo is ready on the wall while the next one is still staged.
C3_Witness == \E id \in Ids(photos) : IsReady(id) /\ stagedPhoto # Null


\* takePhoto returns early: a photo is staged, the camera failed, or the
\* video has no frame yet.
C4_Returns ==
    \/ stagedPhoto # Null
    \/ cameraError.some
    \/ video = Null
    \/ video.w = 0
    \/ video.h = 0

C4_Step ==
    /\ \A hasCtx \in BOOLEAN :
           (C4_Returns /\ takePhoto(hasCtx)) =>
               UNCHANGED <<stagedPhoto, photos, dragState, pendingCaptions, pendingTimers>>
    \* a staged photo is never replaced by another one
    /\ (stagedPhoto # Null /\ stagedPhoto' # Null) => stagedPhoto'.id = stagedPhoto.id

\* C4: takePhoto does nothing while a photo is staged in the camera, while a
\* camera error is set, or while the video frame has zero width or height:
\* staged photo, wall and drag state are unchanged and no caption fetch or
\* developing timer is started.  So a staged photo is never replaced by a
\* new shot.
C4_ShotPrevented == [][C4_Step]_vars

\* A photo is staged while the camera could take another one.
C4_Witness == stagedPhoto # Null /\ now <= MaxPhotos /\ ~cameraError.some /\ video.w > 0

\* a mouse up now ends the drag
C5_MouseUpClears == handleGlobalMouseUp /\ dragState' = Null

C5_Dragged ==
    dragState # Null =>
        /\ dragState.id \in PhotoIds
        /\ dragState.id \in (Ids(photos) \cup deleted)
        /\ ENABLED C5_MouseUpClears

C5_Step ==
    \* the drag state starts to name a photo at a mouse down on that photo
    /\ (dragState' # Null /\ dragState' # dragState) =>
           /\ \E e \in Pointers :
                  \/ \E rect \in CameraRects : handleStagedMouseDown(e, rect)
                  \/ handleWallMouseDown(e, dragState'.id)
           /\ dragState'.id \in Ids(photos')
    \* mouse up clears it, and nothing else does
    /\ handleGlobalMouseUp => dragState' = Null
    /\ (dragState # Null /\ dragState' = Null) => handleGlobalMouseUp
    \* a mouse move changes the one photo the drag state names, and no photo
    \* while the drag state is null
    /\ \A e \in Pointers :
           handleGlobalMouseMove(e) =>
               /\ stagedPhoto' = stagedPhoto
               /\ Len(photos') = Len(photos)
               /\ \A i \in 1..Len(photos) :
                      photos'[i] # photos[i] =>
                          dragState # Null /\ photos[i].id = dragState.id

\* C5: at most one photo is being dragged at any time.  The drag state is
\* non-null only from a mouse down on a photo (staged or wall) to the next
\* mouse up; it names a single photo id; mouse up always clears it; a mouse
\* move while it is null changes no photo.
C5_SingleDrag == []C5_Dragged /\ [][C5_Step]_vars

\* One photo is being dragged away from where it was, the other is on the
\* wall too.
C5_Witness ==
    /\ dragState # Null
    /\ Len(photos) = 2
    /\ dragState.id \in Ids(photos)
    /\ PhotoOf(photos, dragState.id).position # dragState.initialPhotoPos

\* initial position + (pointer - pointer at mouse down)
C6_Position(drag, e) ==
    [x |-> drag.initialPhotoPos.x + e.x - drag.startX,
     y |-> drag.initialPhotoPos.y + e.y - drag.startY]

C6_Step ==
    \* the drag state records the position of the photo and the pointer at
    \* mouse down
    /\ \A e \in Pointers :
           ((\E rect \in CameraRects : handleStagedMouseDown(e, rect))
               \/ (\E id \in PhotoIds : handleWallMouseDown(e, id))) =>
               /\ dragState'.startX = e.x /\ dragState'.startY = e.y
               /\ dragState'.initialPhotoPos = PhotoOf(photos', dragState'.id).position
               /\ dragState'.id \in Ids(photos) =>
                      PhotoOf(photos', dragState'.id).position
                          = PhotoOf(photos, dragState'.id).position
    \* a mouse move puts the dragged photo there and changes nothing else
    /\ \A e \in Pointers :
           (dragState # Null /\ handleGlobalMouseMove(e)) =>
               /\ Len(photos') = Len(photos)
               /\ \A i \in 1..Len(photos) :
                      photos'[i] = IF photos[i].id = dragState.id
                                   THEN [photos[i] EXCEPT
                                            !.position = C6_Position(dragState, e)]
                                   ELSE photos[i]
               /\ UNCHANGED <<stagedPhoto, dragState>>

\* during a drag the photo is where some pointer position puts it
C6_OnTrack ==
    (dragState # Null /\ dragState.id \in Ids(photos)) =>
        \E e \in Pointers :
            PhotoOf(photos, dragState.id).position = C6_Position(dragState, e)

\* C6: during a drag, after every mouse move the dragged photo's position is
\* the position it had at mouse down plus (current pointer - pointer at mouse
\* down), in x and in y; the move changes only the position of the photo the
\* drag state names: every other photo and every other field is unchanged.
C6_DragPosition == []C6_OnTrack /\ [][C6_Step]_vars

\* The dragged photo has followed the pointer from (170, 310) to (420, 640).
C6_Witness ==
    /\ dragState # Null
    /\ dragState.id \in Ids(photos)
    /\ dragState.startX = 170
    /\ PhotoOf(photos, dragState.id).position
           = [x |-> dragState.initialPhotoPos.x + 250, y |-> dragState.initialPhotoPos.y + 330]

C7_Gone == deleted \cap Ids(photos) = {}

C7_Step ==
    \* deletePhoto(id) removes the photo with that id and keeps the others
    /\ \A id \in PhotoIds :
           handleDelete(id) =>
               /\ id \notin Ids(photos')
               /\ Ids(photos') = Ids(photos) \ {id}
               /\ \A other \in Ids(photos') :
                      PhotoOf(photos', other) = PhotoOf(photos, other)
    \* what completes for a deleted id changes no photo
    /\ \A call \in pendingCaptions, outcome \in AIOutcomes :
           (call.id \in deleted /\ captionResolved(call, outcome)) =>
               UNCHANGED <<photos, stagedPhoto>>
    /\ \A id \in deleted :
           developingTimer(id) => UNCHANGED <<photos, stagedPhoto>>
    /\ \A e \in Pointers :
           (dragState # Null /\ dragState.id \in deleted /\ handleGlobalMouseMove(e)) =>
               UNCHANGED <<photos, stagedPhoto>>
    \* once deleted, always deleted
    /\ deleted \subseteq deleted'

\* C7: after deletePhoto(id) no photo with that id is on the wall in any later
\* state; a caption fetch, developing timer, regeneration or mouse move that
\* completes for that id after the deletion does not bring the photo back and
\* changes no other photo.
C7_DeletedStaysDeleted == []C7_Gone /\ [][C7_Step]_vars

\* A photo was deleted while it was dragged and its caption fetch and its
\* developing timer were pending; another photo is on the wall.
C7_Witness ==
    \E id \in deleted :
        /\ id \in pendingTimers
        /\ [id |-> id, kind |-> "initial"] \in pendingCaptions
        /\ dragState # Null /\ dragState.id = id
        /\ photos # <<>>

\* text without the white space at its two ends
C8_Trimmed(text, result) ==
    \E i, j \in 1..Len(text) :
        /\ i <= j
        /\ result = SubSeq(text, i, j)
        /\ text[i] \notin WhiteSpace /\ text[j] \notin WhiteSpace
        /\ \A k \in 1..Len(text) : (k < i \/ k > j) => text[k] \in WhiteSpace

C8_Blank(text) == \A k \in 1..Len(text) : text[k] \in WhiteSpace

\* C8: generateCaption completes with a non-empty caption and never fails.
\* Without an API key it returns "Memories are timeless..." and does not call
\* the AI service; when the AI call throws it returns "A moment frozen in
\* time."; when the response has no text, or white space only, it returns
\* "A beautiful moment captured."; otherwise the trimmed response text.
C8_Caption ==
    /\ gc.pc = "awaiting" => apiKey.some /\ apiKey.v # <<>>
    /\ gc.pc = "returned" =>
        /\ gc.state = "fulfilled"
        /\ gc.result # <<>>
        /\ IF ~apiKey.some \/ apiKey.v = <<>>
           THEN gc.result = MemoriesCaption /\ gc.outcome = NotCalled
           ELSE IF gc.outcome.throws THEN gc.result = FrozenCaption
           ELSE IF ~gc.outcome.text.some \/ C8_Blank(gc.outcome.text.v)
                THEN gc.result = BeautifulCaption
           ELSE C8_Trimmed(gc.outcome.text.v, gc.result)

\* The response text " a " was trimmed to "a".
C8_Witness ==
    /\ gc.pc = "returned"
    /\ gc.outcome.text = Some(<<" ", "a", " ">>)
    /\ gc.result = <<"a">>

C9_Step ==
    \* the click sets isLoadingCaption and nothing else
    /\ \A id \in PhotoIds :
           handleRegenerate(id) =>
               /\ Len(photos') = Len(photos)
               /\ \A i \in 1..Len(photos) :
                      photos'[i] = IF photos[i].id = id
                                   THEN [photos[i] EXCEPT !.isLoadingCaption = TRUE]
                                   ELSE photos[i]
               /\ stagedPhoto' = stagedPhoto
               /\ [id |-> id, kind |-> "regen"] \in pendingCaptions'
    \* the completion stores the fetched caption and clears isLoadingCaption
    /\ \A call \in pendingCaptions, outcome \in AIOutcomes :
           (call.kind = "regen" /\ captionResolved(call, outcome)) =>
               /\ Len(photos') = Len(photos)
               /\ \A i \in 1..Len(photos) :
                      photos'[i] = Captioned(photos[i], call.id,
                                       generateCaption(apiKey, outcome))
               /\ stagedPhoto' = stagedPhoto
    \* while the fetch is in flight only its completion and the user's own
    \* saved edit change the caption
    /\ \A call \in pendingCaptions :
           (/\ call.kind = "regen"
            /\ call.id \in Ids(photos) /\ call.id \in Ids(photos')
            /\ PhotoOf(photos', call.id).caption # PhotoOf(photos, call.id).caption) =>
               \/ \E outcome \in AIOutcomes : captionResolved(call, outcome)
               \/ saveEdit(call.id)

\* a photo with a regeneration in flight is shown as loading
C9_Loading ==
    \A call \in pendingCaptions :
        (call.kind = "regen" /\ call.id \in Ids(photos)) =>
            PhotoOf(photos, call.id).isLoadingCaption

C10_Saved(id) ==
    /\ Len(photos') = Len(photos)
    /\ \A i \in 1..Len(photos) :
           photos'[i] = IF photos[i].id = id
                        THEN [photos[i] EXCEPT !.caption = polaroid[id].editText]
                        ELSE photos[i]
    /\ polaroid' = [polaroid EXCEPT ![id].isEditing = FALSE]
    /\ UNCHANGED <<stagedPhoto, dragState>>

\* cancelEdit on photo id
C10_Cancelled(id) ==
    /\ photos' = photos
    /\ polaroid' = [polaroid EXCEPT ![id].isEditing = FALSE,
                                    ![id].editText = PhotoOf(photos, id).caption]
    /\ UNCHANGED <<stagedPhoto, dragState>>

C10_Step ==
    \A id \in PhotoIds :
        /\ (saveButton(id) \/ handleKeyDown(id, "Enter", FALSE)) => C10_Saved(id)
        /\ (cancelButton(id) \/ \E shiftKey \in BOOLEAN : handleKeyDown(id, "Escape", shiftKey))
               => C10_Cancelled(id)
        \* Shift+Enter and the other keys neither save nor cancel
        /\ (handleKeyDown(id, "Enter", TRUE) \/ \E shiftKey \in BOOLEAN : handleKeyDown(id, "a", shiftKey))
               => UNCHANGED <<photos, polaroid, stagedPhoto, dragState>>

\* C10: saving a caption edit (save button, or Enter without Shift) sets the
\* wall photo's caption to the edit text and leaves edit mode; cancelling
\* (cancel button, or Escape) leaves edit mode with the caption unchanged and
\* the edit text reset to the photo's caption.  Neither changes another field
\* or another photo.
C10_SaveCancel == [][C10_Step]_vars

\* The typed text "b" was saved as the caption of a photo, next to another
\* photo whose editor is open on a typed text.
C10_Witness ==
    \E id, other \in Ids(photos) :
        /\ id # other
        /\ PhotoOf(photos, id).caption = <<"b">>
        /\ ~polaroid[id].isEditing
        /\ polaroid[other].isEditing
        /\ polaroid[other].editText # PhotoOf(photos, other).caption

\* The photo a mouse down on the staged print has put on the wall is on top.
C11_Step ==
    \A e \in Pointers, rect \in CameraRects :
        handleStagedMouseDown(e, rect) =>
            /\ PhotoOf(photos', stagedPhoto.id).zIndex = 100
            /\ \A i \in 1..Len(photos') :
                   photos'[i].zIndex <= PhotoOf(photos', stagedPhoto.id).zIndex

\* C11: a staged photo pulled out of the camera (mouse down on the staged
\* print) is promoted with zIndex 100 and is on top while it is dragged: at
\* that moment no other photo on the wall has a zIndex greater than the
\* promoted photo's.
C11_PromotedOnTop == [][C11_Step]_vars

C12_Step ==
    \A e \in Pointers, id \in PhotoIds :
        handleWallMouseDown(e, id) =>
            LET z == PhotoOf(photos', id).zIndex
            IN \* one more than the highest of 100 and the wall's zIndexes
               /\ z - 1 \in {photos[i].zIndex : i \in 1..Len(photos)} \cup {100}
               /\ z - 1 >= 100
               /\ \A i \in 1..Len(photos) : z - 1 >= photos[i].zIndex
               \* above every other photo, which keeps its zIndex
               /\ Len(photos') = Len(photos)
               /\ \A i \in 1..Len(photos) :
                      IF photos[i].id = id
                      THEN photos'[i] = [photos[i] EXCEPT !.zIndex = z]
                      ELSE photos'[i] = photos[i] /\ photos'[i].zIndex < z
               /\ stagedPhoto' = stagedPhoto

\* C12: a mouse down on a wall photo brings it to the front: afterwards its
\* zIndex is max(100, every wall photo's zIndex) + 1, strictly greater than
\* the zIndex of every other photo on the wall, and the zIndex of every other
\* photo is unchanged.
C12_BringToFront == [][C12_Step]_vars

\* Two photos were brought to the front one after the other: the one dragged
\* now is at 102, above the other at 101.
C12_Witness ==
    /\ dragState # Null
    /\ \E id, other \in Ids(photos) :
           /\ dragState.id = id
           /\ PhotoOf(photos, id).zIndex = 102
           /\ PhotoOf(photos, other).zIndex = 101

C13_Step ==
    \A e \in Pointers, rect \in CameraRects :
        handleStagedMouseDown(e, rect) =>
            \* the camera is emptied
            /\ stagedPhoto # Null /\ stagedPhoto' = Null
            \* the photo goes to the end of the wall; the wall before it is kept
            /\ Len(photos') = Len(photos) + 1
            /\ \A i \in 1..Len(photos) : photos'[i] = photos[i]
            /\ LET promoted == photos'[Len(photos')]
               IN /\ promoted.id = stagedPhoto.id
                  /\ promoted.dataUrl = stagedPhoto.dataUrl
                  /\ promoted.caption = stagedPhoto.caption
                  /\ promoted.date = stagedPhoto.date
                  /\ promoted.isDeveloping = stagedPhoto.isDeveloping
                  /\ promoted.isLoadingCaption = stagedPhoto.isLoadingCaption
                  /\ DOMAIN promoted = DOMAIN stagedPhoto
                  \* and is the photo dragged from now on
                  /\ dragState' # Null
                  /\ dragState'.id = stagedPhoto.id
                  /\ dragState'.initialPhotoPos = promoted.position

\* C13: a mouse down on the staged print, in one step, empties the camera
\* (stagedPhoto becomes null), appends the photo at the end of the wall with
\* the id, dataUrl, caption, date, isDeveloping and isLoadingCaption it had
\* while staged (only position and zIndex are replaced), and starts a drag on
\* that id; the photos already on the wall are unchanged and keep their order.
C13_Promotion == [][C13_Step]_vars

\* The second photo was pulled out next to the first, developed and captioned
\* while the first on the wall still waits for both.
C13_Witness ==
    /\ stagedPhoto = Null
    /\ Len(photos) = 2
    /\ dragState # Null /\ dragState.id = photos[2].id
    /\ photos[2].position = dragState.initialPhotoPos
    /\ ~photos[2].isDeveloping /\ ~photos[2].isLoadingCaption
    /\ photos[2].caption = FrozenCaption
    /\ photos[1].isDeveloping /\ photos[1].isLoadingCaption

C14_Step ==
    \A id \in PhotoIds :
        LET before == Find(stagedPhoto, photos, id)
            after == Find(stagedPhoto', photos', id)
        IN \* a photo is created developing
           /\ (before = Null /\ after # Null) => after.isDeveloping
           \* the flag never goes back to TRUE, and only the timer of this id
           \* clears it
           /\ (before # Null /\ after # Null) =>
                  /\ after.isDeveloping => before.isDeveloping
                  /\ (before.isDeveloping /\ ~after.isDeveloping) => developingTimer(id)
           \* the timer clears it wherever the photo is
           /\ (developingTimer(id) /\ before # Null) =>
                  after # Null /\ ~after.isDeveloping

\* C14: the developing flag only goes from TRUE to FALSE.  A photo is created
\* with isDeveloping = TRUE; the developing timer for its id sets it to FALSE
\* wherever the photo is (staged or on the wall); no operation (drag, edit,
\* regenerate, caption arrival, bring to front) sets it back to TRUE or changes
\* it for another photo.
C14_Developing == [][C14_Step]_vars

\* The timer of the first photo has fired on the wall; the second photo, in
\* the camera, still develops.
C14_Witness ==
    /\ stagedPhoto # Null /\ stagedPhoto.isDeveloping
    /\ Len(photos) = 1
    /\ ~photos[1].isDeveloping
    /\ photos[1].id \notin pendingTimers
    /\ stagedPhoto.id \in pendingTimers

\* ------------------------------------------------ captions and their edits
\* The handlers and callbacks that read or write a caption, isLoadingCaption,
\* the editor or the place of a photo, with the record of the edits the user
\* saved (Edited: the text in the editor is not the photo's caption).  Left
\* out are the wall mouse down, the mouse move and the mouse up, which write
\* position, zIndex and dragState only.
Edited(id) == polaroid[id].editText # PhotoOf(photos, id).caption

EditNext ==
    \/ Idle /\ \E size \in VideoSizes : startCameraOk(size)
          /\ UNCHANGED savedEdits
    \/ Idle /\ \E hasCtx \in BOOLEAN : takePhoto(hasCtx)
          /\ UNCHANGED savedEdits
    \/ Idle /\ \E id \in PhotoIds : developingTimer(id)
          /\ UNCHANGED savedEdits
    \/ \E call \in pendingCaptions, outcome \in AIOutcomes : captionResolved(call, outcome)
          /\ UNCHANGED savedEdits
    \/ Idle /\ \E e \in Pointers, rect \in CameraRects : handleStagedMouseDown(e, rect)
          /\ UNCHANGED savedEdits
    \/ Idle /\ \E id \in PhotoIds : onMouseEnter(id)
          /\ UNCHANGED savedEdits
    \/ Idle /\ \E id \in PhotoIds : onMouseLeave(id)
          /\ UNCHANGED savedEdits
    \/ Idle /\ \E id \in PhotoIds : handleDelete(id)
          /\ savedEdits' = savedEdits \ {id}
    \/ Idle /\ \E id \in PhotoIds : handleRegenerate(id)
          /\ savedEdits' = savedEdits \ {id}
    \/ Idle /\ \E id \in PhotoIds : startEditing(id)
          /\ UNCHANGED savedEdits
    \/ Idle /\ \E id \in PhotoIds, text \in EditTexts : onChange(id, text)
          /\ UNCHANGED savedEdits
    \/ Idle /\ \E id \in PhotoIds : saveButton(id)
          /\ savedEdits' = IF Edited(id) THEN savedEdits \cup {id} ELSE savedEdits
    \/ Idle /\ \E id \in PhotoIds : cancelButton(id)
          /\ UNCHANGED savedEdits
    \/ Idle /\ \E id \in PhotoIds, key \in Keys, shiftKey \in BOOLEAN : handleKeyDown(id, key, shiftKey)
          /\ savedEdits' = IF key = "Enter" /\ ~shiftKey /\ Edited(id)
                           THEN savedEdits \cup {id}
                           ELSE savedEdits

EditSpec == Init /\ [][EditNext]_vars

\* A step that saves an edit of photo id.
C15_Saves(id) ==
    saveButton(id) \/ handleKeyDown(id, "Enter", FALSE)

C15_Step ==
    \A id \in savedEdits :
        (/\ id \in Ids(photos) /\ id \in Ids(photos')
         /\ ~C15_Saves(id)) =>
            PhotoOf(photos', id).caption = PhotoOf(photos, id).caption

\* C15: once the user has saved an edited caption on a wall photo, that
\* caption stays the photo's caption until the user saves another edit or
\* requests a regeneration for that photo; in particular a caption fetch
\* started before the edit was saved does not replace it when it completes.
C15_SavedCaptionStays == [][C15_Step]_vars

====
